---- MODULE Spec2Model ----
(***************************************************************************)
(* BBQueue: a single-producer / single-consumer bipartite ring buffer.     *)
(*                                                                         *)
(* The model follows core/src/bbqueue.rs.  An operation is cut into steps  *)
(* at its accesses to the atomics the other side reads or writes (read for *)
(* the producer; write and last for the consumer).  Accesses to what only  *)
(* the running side touches (its own cursor, reserve, its in-progress      *)
(* flag) are taken together with the neighbouring shared access, so the    *)
(* producer's and the consumer's operations interleave at every point      *)
(* where one side can observe the other.                                   *)
(***************************************************************************)
EXTENDS Integers, Sequences, FiniteSets, TLC

\* ------------------------------------------------------------------ bounds
\* Capacity of the backing storage (BBQueue::capacity).
Cap == 4

\* Largest size argument tried: one more than the capacity (over-sized requests).
MaxSz == Cap + 1
Sizes == 0..MaxSz
\* A non-zero byte, standing for what a caller-supplied region holds before the split.
Junk == 255
\* usize, narrowed to 24 bits: the sizes and cursors are machine words and
\* their sums wrap at Word in a build without overflow checks.
Word == 16777216

VARIABLES
    \* BBQueue fields
    buf, write, read, last, reserve,
    read_in_progress, write_in_progress, already_split,
    \* handles and grants in existence
    pairs,          \* number of (Producer, Consumer) pairs handed out and not released
    wgrants,        \* the GrantW objects alive (commit and drop consume them)
    rgrants,        \* the GrantR / SplitGrantR objects alive (release and drop consume them)
    \* producer thread
    ppc, pl, pres,
    \* consumer thread
    cpc, cl, cres,
    \* try_split / try_release callers
    mode, sres,
    \* async support
    read_waker,     \* TRUE while a waker is registered in read_waker
    write_waker,    \* TRUE while a waker is registered in write_waker
    pfut,           \* the grant future the producer task awaits, with its sz
    cfut,           \* the read future the consumer task awaits
    \* framed mode
    frames,         \* the frames whose header is written and that no read delivered yet
    probe,          \* a framed request put to a queue of some capacity, and its outcome
    \* bookkeeping for the properties
    fifo            \* the cells holding committed and not yet released bytes, in commit order

vars == <<buf, write, read, last, reserve, read_in_progress, write_in_progress,
          already_split, pairs, wgrants, rgrants, ppc, pl, pres,
          cpc, cl, cres, mode, sres, read_waker, write_waker, pfut, cfut,
          frames, probe, fifo>>

\* The two AtomicWaker fields, and the futures of the two tasks.
wakers == <<read_waker, write_waker>>
futures == <<pfut, cfut>>
\* What only the frame endpoints and the header arithmetic touch.
framing == <<frames, probe>>

Min(a, b) == IF a < b THEN a ELSE b

\* Result of a grant placement that found no room.
NoRoom == [start |-> -1, len |-> 0]

NoLocals == [op |-> "none"]

\* BBQueue::new (new_from_slice): all cursors 0, flags clear, the region holding
\* whatever the caller left in it.
NewQueue ==
    /\ buf = [i \in 0..(Cap - 1) |-> Junk]
    /\ write = 0 /\ read = 0 /\ last = 0 /\ reserve = 0
    /\ read_in_progress = FALSE /\ write_in_progress = FALSE
    /\ already_split = FALSE
    /\ pairs = 0
    /\ wgrants = <<>> /\ rgrants = <<>>
    /\ ppc = "idle" /\ pl = NoLocals /\ pres = "none"
    /\ cpc = "idle" /\ cl = NoLocals /\ cres = "none"
    /\ mode = "unsplit" /\ sres = "none"
    /\ read_waker = FALSE /\ write_waker = FALSE
    /\ pfut = NoLocals /\ cfut = NoLocals
    /\ frames = <<>>
    /\ fifo = <<>>

Init == NewQueue /\ probe = NoLocals

\* ------------------------------------------------------------ atomics
\* Mutant of AtomicSwap: stores val, but reports the flag as having been clear.
AtomicSwapBlind(flag, val) == [old |-> FALSE, new |-> val]

\* atomic::swap(flag, val): stores val, returns the previous value.
AtomicSwap(flag, val) == [old |-> flag, new |-> val]

\* ------------------------------------------------- try_split / try_release
\* try_split's zeroing: (*mu_ptr).as_mut_ptr().write_bytes(0u8, 1) on a *mut u8
\* writes one byte, the first of the region.
ZeroedOnSplit(b) == [i \in DOMAIN b |-> IF i < 1 THEN 0 ELSE b[i]]

\* BBQueue::try_split; try_split_framed calls it and wraps the pair.
TrySplitAs(m) ==
    LET s == AtomicSwap(already_split, TRUE) IN
    /\ already_split' = s.new
    /\ IF s.old
         THEN /\ sres' = "AlreadySplit"
              /\ UNCHANGED <<buf, pairs, mode>>
         ELSE /\ buf' = ZeroedOnSplit(buf)
              /\ pairs' = pairs + 1
              /\ mode' = m
              /\ sres' = "Ok"
    /\ UNCHANGED <<write, read, last, reserve, read_in_progress, write_in_progress,
                   wgrants, rgrants, ppc, pl, pres, cpc, cl, cres, fifo>>
    /\ UNCHANGED <<wakers, futures, framing>>

TrySplit == TrySplitAs("bytes")

TrySplitFramed == TrySplitAs("framed")

\* The Producer handle is borrowed (&mut self) while a grant request runs, the
\* Consumer handle while a read request runs; grants do not borrow the handles.
ProducerFree == TRUE
ConsumerFree == cpc \notin {"r_last", "r_read"}

\* Mutant of GrantsInProgress: only the write flag is looked at.
GrantsInProgressWriteOnly(wr, rd) == wr

\* try_release: wr_in_progress || rd_in_progress
GrantsInProgress(wr, rd) == wr \/ rd

\* Mutant of Reinit: the cursor keeps its value.
ReinitKept(c) == c

\* try_release: self.write / read / reserve / last .store(0, Release)
Reinit(c) == 0

\* BBQueue::try_release(prod, cons); try_release_framed unwraps and calls it.
\* our_prod / our_cons: whether the handle passed in belongs to this queue.
TryRelease(our_prod, our_cons) ==
    /\ (our_prod \/ our_cons) => (pairs >= 1 /\ ProducerFree /\ ConsumerFree)
    /\ IF ~(our_prod /\ our_cons)
         THEN /\ sres' = "ReleaseErr"
              /\ UNCHANGED <<write, read, last, reserve, already_split, pairs, mode, fifo, cl>>
         ELSE IF GrantsInProgress(write_in_progress, read_in_progress)
         THEN /\ sres' = "ReleaseErr"
              /\ UNCHANGED <<write, read, last, reserve, already_split, pairs, mode, fifo, cl>>
         ELSE /\ write' = Reinit(write) /\ read' = Reinit(read)
              /\ reserve' = Reinit(reserve) /\ last' = Reinit(last)
              /\ already_split' = FALSE
              /\ pairs' = pairs - 1
              /\ mode' = "unsplit"
              /\ fifo' = <<>>
              /\ cl' = NoLocals
              /\ sres' = "ReleaseOk"
    /\ UNCHANGED <<buf, read_in_progress, write_in_progress, wgrants, rgrants,
                   ppc, pl, pres, cpc, cres>>
    /\ UNCHANGED <<wakers, futures, framing>>


\* ------------------------------------------------------------- producer
\* Mutant of GrantExactPlace: the wrap is allowed up to read (sz <= read).
GrantExactPlaceUpToRead(w, r, sz, max) ==
    IF w < r
      THEN IF w + sz < r THEN [start |-> w, len |-> sz] ELSE NoRoom
      ELSE IF w + sz <= max THEN [start |-> w, len |-> sz]
           ELSE IF sz <= r THEN [start |-> 0, len |-> sz] ELSE NoRoom

\* Mutant of GrantExactPlace: a grant must end before the end of the buffer.
GrantExactPlaceShortOfEnd(w, r, sz, max) ==
    IF w < r
      THEN IF w + sz < r THEN [start |-> w, len |-> sz] ELSE NoRoom
      ELSE IF w + sz < max THEN [start |-> w, len |-> sz]
           ELSE IF sz < r THEN [start |-> 0, len |-> sz] ELSE NoRoom

\* Producer::grant_exact, the placement decision: where a grant of sz bytes
\* starts, given the loaded write and read, or NoRoom.
GrantExactPlace(w, r, sz, max) ==
    IF w < r
      THEN IF (w + sz) % Word < r THEN [start |-> w, len |-> sz] ELSE NoRoom
      ELSE IF (w + sz) % Word <= max THEN [start |-> w, len |-> sz]
           ELSE IF sz < r THEN [start |-> 0, len |-> sz] ELSE NoRoom

\* Mutant of GrantMaxPlace: the whole room is granted, whatever was asked.
GrantMaxPlaceWhole(w, r, sz, max) ==
    IF w < r
      THEN LET remain == r - w - 1 IN
           IF remain # 0 THEN [start |-> w, len |-> remain] ELSE NoRoom
      ELSE IF w # max THEN [start |-> w, len |-> max - w]
           ELSE IF r > 1 THEN [start |-> 0, len |-> r - 1] ELSE NoRoom

\* Mutant of GrantMaxPlace: the room runs up to read, with no byte left free.
GrantMaxPlaceUpToRead(w, r, sz, max) ==
    IF w < r
      THEN LET remain == r - w IN
           IF remain # 0 THEN [start |-> w, len |-> Min(remain, sz)] ELSE NoRoom
      ELSE IF w # max THEN [start |-> w, len |-> Min(max - w, sz)]
           ELSE IF r > 0 THEN [start |-> 0, len |-> Min(r, sz)] ELSE NoRoom

\* Producer::grant_max_remaining, the placement decision: the grant may be
\* shorter than sz.
GrantMaxPlace(w, r, sz, max) ==
    IF w < r
      THEN LET remain == r - w - 1 IN
           IF remain # 0 THEN [start |-> w, len |-> Min(remain, sz)] ELSE NoRoom
      ELSE IF w # max THEN [start |-> w, len |-> Min(max - w, sz)]
           ELSE IF r > 1 THEN [start |-> 0, len |-> Min(r - 1, sz)] ELSE NoRoom

Place(op, w, r, sz, max) ==
    IF op = "grant_exact" THEN GrantExactPlace(w, r, sz, max)
    ELSE GrantMaxPlace(w, r, sz, max)

\* A Producer exists: bare, or wrapped in a FrameProducer.
ProducerAlive == pairs >= 1

\* Mutant of GiveBack: the failure path leaves the flag as the swap set it.
GiveBackForgotten(flag) == flag

\* inner.write_in_progress.store(false, Release) / inner.read_in_progress
\* .store(false, Release) on the InsufficientSize paths: the value the claimed
\* flag has when the request fails.
GiveBack(flag) == FALSE

\* Producer::grant_exact / Producer::grant_max_remaining: claim
\* write_in_progress; load write and read; then give the flag back and fail,
\* or store reserve and hand out the grant.
Grant(op, sz) ==
    LET s == AtomicSwap(write_in_progress, TRUE)
        pm == Place(op, write, read, sz, Cap)
    IN
    /\ ProducerAlive /\ ppc = "idle"
    /\ IF s.old
         THEN /\ pres' = "GrantInProgress"
              /\ write_in_progress' = s.new
              /\ UNCHANGED <<reserve, wgrants>>
         ELSE IF pm = NoRoom
         THEN /\ pres' = "InsufficientSize"
              /\ write_in_progress' = GiveBack(s.new)
              /\ UNCHANGED <<reserve, wgrants>>
         ELSE /\ pres' = "Ok"
              /\ write_in_progress' = s.new
              /\ reserve' = pm.start + pm.len
              /\ wgrants' = Append(wgrants, [start |-> pm.start, len |-> pm.len,
                                             to_commit |-> 0,
                                             w0 |-> write, last0 |-> last])
    /\ UNCHANGED <<buf, write, read, last, read_in_progress, already_split, pairs,
                   rgrants, ppc, pl, cpc, cl, cres, mode, sres, fifo>>
    /\ UNCHANGED <<wakers, futures, framing>>

RemoveAt(seq, i) == SubSeq(seq, 1, i - 1) \o SubSeq(seq, i + 1, Len(seq))

\* Mutant of Saturate: the argument is used as given.
SaturateNot(len, used) == used

\* min(len, used): "Saturate the grant commit" / "Saturate the grant release",
\* and the same clamp in to_commit and to_release.
Saturate(len, used) == Min(len, used)

\* GrantW::to_commit.  (A grant record also remembers the write and last of
\* the moment it was requested, w0 and last0.)
ToCommit(i, amt) ==
    /\ ppc = "idle"
    /\ wgrants' = [wgrants EXCEPT ![i].to_commit = Saturate(wgrants[i].len, amt)]
    /\ UNCHANGED <<buf, write, read, last, reserve, read_in_progress, write_in_progress,
                   already_split, pairs, rgrants, ppc, pl, pres, cpc, cl, cres,
                   mode, sres, fifo>>
    /\ UNCHANGED <<wakers, futures, framing>>

\* Mutant of CommitLast: a wrapping commit does not record the old write in last.
CommitLastNoMark(new_write, w, lastv, max) ==
    IF new_write > lastv THEN max ELSE lastv

\* GrantW::commit_inner, the value stored into last (or the one it keeps).
\* max is what the source calls max.
CommitLast(new_write, w, lastv, max) ==
    IF new_write < w /\ w # max THEN w
    ELSE IF new_write > lastv THEN max
    ELSE lastv

\* GrantW::commit(used) and Drop for GrantW (commit_inner(to_commit)), up to
\* and with the store to last: check the flag, saturate, load write, give the
\* unused tail of reserve back, load last and reserve, store last.
CommitBegin(i, op, arg) ==
    LET g == wgrants[i]
        len == g.len
        used == Saturate(len, IF op = "drop" THEN g.to_commit ELSE arg)
        max == len
        new_write == reserve - (len - used)
    IN
    /\ ppc = "idle"
    /\ wgrants' = RemoveAt(wgrants, i)
    /\ IF ~write_in_progress
         THEN /\ pres' = "Ok"
              /\ UNCHANGED <<reserve, last, ppc, pl>>
         ELSE /\ reserve' = new_write
              /\ last' = CommitLast(new_write, write, last, max)
              /\ pl' = [op |-> op, g |-> g, arg |-> arg, used |-> used,
                        new_write |-> new_write]
              /\ ppc' = "c_write"
              /\ pres' = "none"
    /\ UNCHANGED <<buf, write, read, read_in_progress, write_in_progress,
                   already_split, pairs, rgrants, cpc, cl, cres, mode, sres, fifo>>
    /\ UNCHANGED <<wakers, futures, framing>>

\* AtomicWaker::wake: the registered waker, if any, is taken out and woken.  A
\* task whose future is pending is scheduled for a poll when no waker of its
\* is registered.
Wake(w) == FALSE

\* The cells [start, start + n), in order.
Cells(start, n) == [k \in 1..n |-> start + k - 1]

\* commit_inner: the store to write, which publishes the committed bytes, and
\* the clearing of write_in_progress (and the wake of the read waker).
CommitPublish ==
    /\ ppc = "c_write"
    /\ write' = pl.new_write
    /\ fifo' = fifo \o Cells(pl.g.start, pl.used)
    /\ write_in_progress' = FALSE
    /\ ppc' = "idle"
    /\ pl' = NoLocals
    /\ pres' = "Ok"
    /\ UNCHANGED <<buf, read, last, reserve, read_in_progress, already_split, pairs,
                   wgrants, rgrants, cpc, cl, cres, mode, sres>>
    /\ read_waker' = Wake(read_waker)
    /\ UNCHANGED <<write_waker, futures, framing>>

\* ------------------------------------------------------------- consumer
\* A Consumer exists: bare, or wrapped in a FrameConsumer.
ConsumerAlive == pairs >= 1

\* Consumer::read / Consumer::split_read, first step: claim read_in_progress
\* and load write.
ReadBegin(op) ==
    LET s == AtomicSwap(read_in_progress, TRUE) IN
    /\ ConsumerAlive /\ cpc = "idle"
    /\ read_in_progress' = s.new
    /\ IF s.old
         THEN /\ cres' = "GrantInProgress"
              /\ UNCHANGED <<cpc, cl>>
         ELSE /\ cpc' = "r_last"
              /\ cl' = [op |-> op, w |-> write, r0 |-> read, prev |-> cl]
              /\ cres' = "none"
    /\ UNCHANGED <<buf, write, read, last, reserve, write_in_progress, already_split,
                   pairs, wgrants, rgrants, ppc, pl, pres, mode, sres, fifo>>
    /\ UNCHANGED <<wakers, futures, framing>>

\* let last = inner.last.load(Acquire)
ReadLoadLast ==
    /\ cpc = "r_last"
    /\ cl' = [op |-> cl.op, w |-> cl.w, r0 |-> cl.r0, prev |-> cl.prev, l |-> last]
    /\ cpc' = "r_read"
    /\ UNCHANGED <<buf, write, read, last, reserve, read_in_progress, write_in_progress,
                   already_split, pairs, wgrants, rgrants, ppc, pl, pres, cres,
                   mode, sres, fifo>>
    /\ UNCHANGED <<wakers, futures, framing>>

\* Mutant of Rollover: read is never reset.
RolloverNever(w, l, r) == FALSE

\* Mutant of Rollover: read is reset whenever it has reached last.
RolloverAtLast(w, l, r) == (r = l)

\* Whether the reader has reached last with the writer wrapped behind it.
Rollover(w, l, r) == (r = l) /\ (w < r)

\* Mutant of RolloverLast: the reader moves last back to the capacity when it
\* leaves the inverted condition.
RolloverLastMovedBack(l, max) == max

\* What the reader's rollover makes of last: last was loaded, only read is
\* stored.
RolloverLast(l, max) == l

\* Mutant of ReadLen: the slice always runs up to last.
ReadLenBelievesLast(w, l, r) == l - r

\* Consumer::read: the length of the readable slice at read.
ReadLen(w, l, r) == (IF w < r THEN l ELSE w) - r

\* Mutant of SplitLens: the second slice is always empty.
SplitLensPrimaryOnly(w, l, r) == IF w < r THEN <<l - r, 0>> ELSE <<w - r, 0>>

\* Consumer::split_read: the lengths of the two slices, at read and at 0.
SplitLens(w, l, r) == IF w < r THEN <<l - r, w>> ELSE <<w - r, 0>>

GrantLens(op, w, l, r) ==
    IF op = "read" THEN <<ReadLen(w, l, r), 0>> ELSE SplitLens(w, l, r)

\* Last step: load read, store read := 0 on a rollover, then fail on an empty
\* first slice or hand out the grant.
ReadFinish ==
    LET r == IF Rollover(cl.w, cl.l, read) THEN 0 ELSE read
        lens == GrantLens(cl.op, cl.w, cl.l, r)
    IN
    /\ cpc = "r_read"
    /\ read' = r
    /\ IF lens[1] = 0
         THEN /\ read_in_progress' = GiveBack(read_in_progress)
              /\ cres' = "InsufficientSize"
              /\ UNCHANGED rgrants
         ELSE /\ rgrants' = Append(rgrants, [kind |-> cl.op, start |-> r,
                                             len1 |-> lens[1], len2 |-> lens[2],
                                             to_release |-> 0])
              /\ cres' = "Ok"
              /\ UNCHANGED read_in_progress
    /\ cpc' = "idle"
    /\ cl' = NoLocals
    /\ last' = IF Rollover(cl.w, cl.l, read) THEN RolloverLast(last, Cap) ELSE last
    /\ UNCHANGED <<buf, write, reserve, write_in_progress, already_split,
                   pairs, wgrants, ppc, pl, pres, mode, sres, fifo>>
    /\ UNCHANGED <<wakers, futures, framing>>

\* SplitGrantR::combined_len; for a GrantR, buf.len().
GrantLen(g) == g.len1 + g.len2

\* GrantR::to_release / SplitGrantR::to_release
ToRelease(i, amt) ==
    /\ cpc = "idle"
    /\ rgrants' = [rgrants EXCEPT ![i].to_release = Saturate(GrantLen(rgrants[i]), amt)]
    /\ UNCHANGED <<buf, write, read, last, reserve, read_in_progress, write_in_progress,
                   already_split, pairs, wgrants, ppc, pl, pres, cpc, cl, cres,
                   mode, sres, fifo>>
    /\ UNCHANGED <<wakers, futures, framing>>

\* Mutant of ReleasedRead: used is always added to read.
ReleasedReadAdds(g, r, used) == r + used

\* release_inner: the new value of read.  GrantR adds used; SplitGrantR adds
\* used when it stays inside the first slice and stores used - buf1.len()
\* otherwise.
ReleasedRead(g, r, used) ==
    IF g.kind = "read" THEN r + used
    ELSE IF used <= g.len1 THEN r + used
    ELSE used - g.len1

\* GrantR::release / SplitGrantR::release (saturating) and the grants' Drop
\* (release_inner(to_release)): the flag check, the update of read and the
\* clearing of read_in_progress (GrantR also wakes the write waker).
\* Until its next request the consumer remembers, in cl, a grant it dropped
\* with nothing released.
Release(i, op, arg) ==
    LET g == rgrants[i]
        used == IF op = "drop" THEN g.to_release ELSE Saturate(GrantLen(g), arg)
    IN
    /\ cpc = "idle"
    /\ rgrants' = RemoveAt(rgrants, i)
    /\ IF ~read_in_progress
         THEN UNCHANGED <<read, fifo, read_in_progress>>
         ELSE /\ read' = ReleasedRead(g, read, used)
              /\ fifo' = SubSeq(fifo, used + 1, Len(fifo))
              /\ read_in_progress' = FALSE
    /\ cres' = "Ok"
    /\ cl' = IF op = "drop" /\ used = 0 THEN [op |-> "dropped", g |-> g] ELSE NoLocals
    /\ UNCHANGED <<buf, write, last, reserve, write_in_progress, already_split,
                   pairs, wgrants, ppc, pl, pres, cpc, mode, sres>>
    /\ write_waker' = IF read_in_progress /\ g.kind = "read" THEN Wake(write_waker)
                      ELSE write_waker
    /\ UNCHANGED <<read_waker, futures, framing>>

\* ------------------------------------------------------------ behaviours
Next ==
    \/ TrySplit
    \/ TrySplitFramed
    \/ \E a \in BOOLEAN, b \in BOOLEAN : TryRelease(a, b)
    \/ \E op \in {"grant_exact", "grant_max_remaining"}, sz \in Sizes :
          mode = "bytes" /\ Grant(op, sz)
    \/ \E i \in DOMAIN wgrants, amt \in Sizes : ToCommit(i, amt)
    \/ \E i \in DOMAIN wgrants, arg \in Sizes : CommitBegin(i, "commit", arg)
    \/ \E i \in DOMAIN wgrants : CommitBegin(i, "drop", 0)
    \/ CommitPublish
    \/ \E op \in {"read", "split_read"} : mode = "bytes" /\ ReadBegin(op)
    \/ ReadLoadLast
    \/ ReadFinish
    \/ \E i \in DOMAIN rgrants, amt \in Sizes : ToRelease(i, amt)
    \/ \E i \in DOMAIN rgrants, arg \in Sizes : Release(i, "release", arg)
    \/ \E i \in DOMAIN rgrants : Release(i, "drop", 0)

Spec == Init /\ [][Next]_vars

\* ------------------------------------------------------------ async tasks
\* A future of a task is pending from its creation to its resolution.  While
\* it is pending, pres (cres) holds "Pending" when the task is not inside a
\* poll, and the outcome of the try-operation between the two halves of a
\* poll.  A pending task that is outside a poll is polled when no waker is
\* registered for it: at first, and again after a wake took its waker.
NoFuture == NoLocals
Failed == {"InsufficientSize", "GrantInProgress"}

\* Mutant of Infeasible: a request that does not fit after write is refused
\* even when it fits before write.
InfeasibleTailOnly(sz, w, max) == sz > max \/ sz > max - w

\* GrantExactFuture::poll, the check made before grant_exact is tried.
Infeasible(sz, w, max) == sz > max \/ (sz > max - w /\ sz >= w)

\* Producer::grant_exact_async / Producer::grant_max_remaining_async: the
\* future is built; the task, which holds no grant, awaits it.
GrantAsync(op, sz) ==
    /\ ProducerAlive /\ ppc = "idle"
    /\ pfut = NoFuture /\ wgrants = <<>>
    /\ pfut' = [op |-> op, sz |-> sz]
    /\ pres' = "Pending"
    /\ UNCHANGED <<buf, write, read, last, reserve, read_in_progress, write_in_progress,
                   already_split, pairs, wgrants, rgrants, ppc, pl, cpc, cl, cres,
                   mode, sres, wakers, cfut, framing, fifo>>

\* GrantExactFuture::poll / GrantMaxRemainingFuture::poll, up to the return
\* of the try-operation: grant_exact_async resolves at once with
\* InsufficientSize on an infeasible size, otherwise the grant is tried.
GrantFuturePoll ==
    /\ pfut # NoFuture /\ pres = "Pending" /\ ~write_waker
    /\ IF pfut.op = "grant_exact" /\ Infeasible(pfut.sz, write, Cap)
         THEN /\ ProducerAlive /\ ppc = "idle"
              /\ pres' = "InsufficientSize"
              /\ pfut' = NoFuture
              /\ UNCHANGED <<buf, write, read, last, reserve, read_in_progress,
                             write_in_progress, already_split, pairs, wgrants, rgrants,
                             ppc, pl, cpc, cl, cres, mode, sres, wakers, cfut, framing, fifo>>
         ELSE Grant(pfut.op, pfut.sz)

\* The rest of the poll: Ready with the grant, or the task's waker is
\* registered in write_waker and the poll returns Pending.
GrantFutureReturn ==
    /\ pfut # NoFuture /\ pres \in Failed \cup {"Ok"}
    /\ IF pres = "Ok"
         THEN /\ pfut' = NoFuture
              /\ UNCHANGED <<pres, write_waker>>
         ELSE /\ write_waker' = TRUE
              /\ pres' = "Pending"
              /\ UNCHANGED pfut
    /\ UNCHANGED <<buf, write, read, last, reserve, read_in_progress, write_in_progress,
                   already_split, pairs, wgrants, rgrants, ppc, pl, cpc, cl, cres,
                   mode, sres, read_waker, cfut, framing, fifo>>

\* Consumer::read_async / Consumer::split_read_async: the future is built; the
\* task, which holds no grant, awaits it.
ReadAsync(op) ==
    /\ ConsumerAlive /\ cpc = "idle"
    /\ cfut = NoFuture /\ rgrants = <<>>
    /\ cfut' = [op |-> op]
    /\ cres' = "Pending"
    /\ UNCHANGED <<buf, write, read, last, reserve, read_in_progress, write_in_progress,
                   already_split, pairs, wgrants, rgrants, ppc, pl, pres, cpc, cl,
                   mode, sres, wakers, pfut, framing, fifo>>

\* GrantReadFuture::poll / GrantSplitReadFuture::poll: the call of read or
\* split_read starts (ReadLoadLast and ReadFinish end it).
ReadFuturePoll ==
    /\ cfut # NoFuture /\ cres = "Pending" /\ ~read_waker
    /\ ReadBegin(cfut.op)

\* The rest of the poll: Ready with the grant, or the task's waker is
\* registered in read_waker and the poll returns Pending.
ReadFutureReturn ==
    /\ cfut # NoFuture /\ cpc = "idle" /\ cres \in Failed \cup {"Ok"}
    /\ IF cres = "Ok"
         THEN /\ cfut' = NoFuture
              /\ UNCHANGED <<cres, read_waker>>
         ELSE /\ read_waker' = TRUE
              /\ cres' = "Pending"
              /\ UNCHANGED cfut
    /\ UNCHANGED <<buf, write, read, last, reserve, read_in_progress, write_in_progress,
                   already_split, pairs, wgrants, rgrants, ppc, pl, pres, cpc, cl,
                   mode, sres, write_waker, pfut, framing, fifo>>

\* What the producer task does with the grant a future gave it.
ProducerCommits ==
    /\ pfut = NoFuture
    /\ \/ \E i \in DOMAIN wgrants, arg \in Sizes : CommitBegin(i, "commit", arg)
       \/ \E i \in DOMAIN wgrants : CommitBegin(i, "drop", 0)

\* What the consumer task does with the grant a future gave it.
ConsumerReleases ==
    /\ cfut = NoFuture
    /\ \/ \E i \in DOMAIN rgrants, arg \in Sizes : Release(i, "release", arg)
       \/ \E i \in DOMAIN rgrants : Release(i, "drop", 0)

\* The consumer task releases all of the grant a future gave it.
ConsumerReleasesAll ==
    /\ cfut = NoFuture
    /\ \E i \in DOMAIN rgrants : Release(i, "release", GrantLen(rgrants[i]))

\* The producer task and the consumer task, each on its own thread.
AsyncNext ==
    \/ TrySplit
    \/ \E op \in {"grant_exact", "grant_max_remaining"}, sz \in Sizes : GrantAsync(op, sz)
    \/ GrantFuturePoll
    \/ GrantFutureReturn
    \/ ProducerCommits
    \/ CommitPublish
    \/ \E op \in {"read", "split_read"} : ReadAsync(op)
    \/ ReadFuturePoll
    \/ ReadLoadLast
    \/ ReadFinish
    \/ ReadFutureReturn
    \/ ConsumerReleases

SpecAsync == Init /\ [][AsyncNext]_vars

\* The steps of a producer task that has begun something, and the steps of a
\* consumer task that reads with read_async for ever and releases all it gets.
ProducerRuns == GrantFuturePoll \/ GrantFutureReturn \/ ProducerCommits \/ CommitPublish
ConsumerRuns ==
    \/ ReadAsync("read")
    \/ ReadFuturePoll
    \/ ReadLoadLast
    \/ ReadFinish
    \/ ReadFutureReturn
    \/ ConsumerReleasesAll

AsyncFairNext ==
    \/ TrySplit
    \/ \E op \in {"grant_exact", "grant_max_remaining"}, sz \in Sizes : GrantAsync(op, sz)
    \/ ProducerRuns
    \/ ConsumerRuns

\* Each thread runs its task whenever the task can take a step.
SpecAsyncFair ==
    Init /\ [][AsyncFairNext]_vars /\ WF_vars(ProducerRuns) /\ WF_vars(ConsumerRuns)

\* A task is busy inside a poll and inside a commit.
ProducerBusy == ppc # "idle" \/ (pfut # NoFuture /\ pres \in Failed \cup {"Ok"})
ConsumerBusy == cpc # "idle" \/ (cfut # NoFuture /\ cres \in Failed \cup {"Ok"})

\* Both tasks on one executor thread: a task runs only while the other one
\* is not busy, so that a poll is never interleaved with the other task.
ProducerTurn == ~ConsumerBusy /\ ProducerRuns
ConsumerTurn == ~ProducerBusy /\ ConsumerRuns

AsyncTurnsNext ==
    \/ TrySplit
    \/ \E op \in {"grant_exact", "grant_max_remaining"}, sz \in Sizes :
          ~ConsumerBusy /\ GrantAsync(op, sz)
    \/ ProducerTurn
    \/ ConsumerTurn

\* The executor runs each task whenever the task can take a step.
SpecAsyncTurns ==
    Init /\ [][AsyncTurnsNext]_vars /\ WF_vars(ProducerTurn) /\ WF_vars(ConsumerTurn)

\* ------------------------------------------------------------ framed mode
\* The frame endpoints (crate::framed) wrap a Producer and a Consumer and put
\* a length header in front of every payload: a variable-length unsigned
\* integer, 7 data bits per byte, the top bit set on every byte but the last.

\* Mutant of HeaderLen: 8 data bits per header byte.
RECURSIVE HeaderLenOctets(_)
HeaderLenOctets(L) == IF L < 256 THEN 1 ELSE 1 + HeaderLenOctets(L \div 256)

\* The number of header bytes for a payload of L bytes.
RECURSIVE HeaderLen(_)
HeaderLen(L) == IF L < 128 THEN 1 ELSE 1 + HeaderLen(L \div 128)

\* The header bytes for a payload of L bytes.
RECURSIVE EncodeLen(_)
EncodeLen(L) ==
    IF L < 128 THEN <<L>> ELSE <<128 + (L % 128)>> \o EncodeLen(L \div 128)

\* The header found in b from cell at on: the payload length it gives and its
\* own length.
RECURSIVE DecodeLen(_, _)
DecodeLen(b, at) ==
    IF b[at] < 128 \/ at + 1 \notin DOMAIN b THEN [len |-> b[at] % 128, hdr |-> 1]
    ELSE LET rest == DecodeLen(b, at + 1)
         IN [len |-> (b[at] - 128) + 128 * rest.len, hdr |-> 1 + rest.hdr]

\* FrameProducer::grant(n): the raw bytes asked of grant_exact, the
\* worst-case header and the payload.
FramedRequest(n) == HeaderLen(n) + n

\* The payload size a framed grant of len raw bytes was made for.
PayloadCap(len) == CHOOSE n \in 0..len : FramedRequest(n) = len

\* FrameProducer::grant(n)
FramedGrant(n) ==
    /\ mode = "framed" /\ wgrants = <<>>
    /\ Grant("grant_exact", FramedRequest(n))

\* FrameGrantW::commit(k), the header: the payload length is k saturated to
\* the payload size of the grant; its header goes into the cells right in
\* front of the payload.  (Up to 127 bytes of payload all headers are one
\* byte long, and the header is the first cell of the grant.)
FramedSetHeader(k) ==
    LET g == wgrants[1]
        n == PayloadCap(g.len)
        h_max == g.len - n
        L == Saturate(n, k)
        hdr == EncodeLen(L)
        at == g.start + h_max - Len(hdr)
    IN
    /\ mode = "framed" /\ Len(wgrants) = 1 /\ pres = "Ok" /\ ppc = "idle"
    /\ buf' = [i \in DOMAIN buf |->
                 IF at <= i /\ i < at + Len(hdr) THEN hdr[i - at + 1] ELSE buf[i]]
    /\ frames' = Append(frames, [at |-> g.start + h_max, n |-> n, k |-> k])
    /\ pres' = "Header"
    /\ UNCHANGED <<write, read, last, reserve, read_in_progress, write_in_progress,
                   already_split, pairs, wgrants, rgrants, ppc, pl, cpc, cl, cres,
                   mode, sres, wakers, futures, probe, fifo>>

\* FrameGrantW::commit(k), the raw commit of the header and the payload.
FramedCommit ==
    /\ mode = "framed" /\ Len(wgrants) = 1 /\ pres = "Header"
    /\ LET d == DecodeLen(buf, wgrants[1].start)
       IN CommitBegin(1, "commit", d.hdr + d.len)

\* FrameConsumer::read is called.  The consumer notes, for the properties,
\* whether committed bytes were in the queue at the call.
FramedReadCall ==
    /\ mode = "framed" /\ ConsumerAlive /\ cpc = "idle" /\ rgrants = <<>>
    /\ cres \notin Failed \cup {"Calling"}
    /\ cl' = [op |-> "frame_read", had |-> (fifo # <<>>)]
    /\ cres' = "Calling"
    /\ UNCHANGED <<buf, write, read, last, reserve, read_in_progress, write_in_progress,
                   already_split, pairs, wgrants, rgrants, ppc, pl, pres, cpc,
                   mode, sres, wakers, futures, framing, fifo>>

\* FrameConsumer::read: the raw read starts (ReadLoadLast and ReadFinish end it).
FramedRead ==
    /\ mode = "framed" /\ cres = "Calling"
    /\ ReadBegin("read")

\* Mutant of Shrink: the grant keeps all its bytes.
ShrinkKeepsAll(g, len) == g

\* GrantR::shrink(len): the grant keeps its first len bytes.
Shrink(g, len) == [g EXCEPT !.len1 = len]

\* FrameConsumer::read, after the raw read: no frame when it failed; otherwise
\* the header at the start of the grant is decoded and the grant shrunk to
\* that one frame (split_at_mut panics on a frame longer than the grant).
\* The consumer notes, for the properties, the oldest frame not yet delivered.
FramedReadReturn ==
    /\ mode = "framed" /\ cpc = "idle"
    /\ cres \in Failed \/ (cres = "Ok" /\ Len(rgrants) = 1)
    /\ IF cres \in Failed
         THEN /\ cres' = "NoFrame"
              /\ UNCHANGED <<rgrants, cl, frames>>
         ELSE LET g == rgrants[1]
                  d == DecodeLen(buf, g.start)
              IN IF d.hdr + d.len <= g.len1
                   THEN /\ rgrants' = <<Shrink(g, d.hdr + d.len)>>
                        /\ cl' = [op |-> "frame", hdr |-> d.hdr, len |-> d.len,
                                  frame |-> IF frames = <<>> THEN NoLocals ELSE frames[1]]
                        /\ frames' = SubSeq(frames, 2, Len(frames))
                        /\ cres' = "Frame"
                   ELSE /\ cres' = "Panic"
                        /\ UNCHANGED <<rgrants, cl, frames>>
    /\ UNCHANGED <<buf, write, read, last, reserve, read_in_progress, write_in_progress,
                   already_split, pairs, wgrants, ppc, pl, pres, cpc,
                   mode, sres, wakers, futures, probe, fifo>>

\* FrameGrantR::release: the whole frame, header and payload, is released.
FramedRelease ==
    /\ mode = "framed" /\ cres = "Frame" /\ Len(rgrants) = 1
    /\ Release(1, "release", GrantLen(rgrants[1]))

\* A frame producer and a frame consumer, each on its own thread.
FramedNext ==
    \/ TrySplitFramed
    \/ \E n \in 0..Cap : FramedGrant(n)
    \/ \E k \in Sizes : FramedSetHeader(k)
    \/ FramedCommit
    \/ CommitPublish
    \/ FramedReadCall
    \/ FramedRead
    \/ ReadLoadLast
    \/ ReadFinish
    \/ FramedReadReturn
    \/ FramedRelease

SpecFramed == Init /\ [][FramedNext]_vars

\* ------------------------------------------------------ header arithmetic
\* Framed requests put to queues of several capacities, in several positions
\* of write and read.
ProbeSizes ==
    (0..130) \cup {16382, 16383, 16384, 16385, 65532, 65533, 65534, 65535,
                   2097150, 2097151}
ProbeCaps == {22, 128, 129, 65536}
ProbeCursors == {0, 11, 22}

ProbeInit ==
    /\ NewQueue
    /\ probe \in {[op |-> "grant", n |-> n, c |-> c, w |-> w, r |-> r,
                     asked |-> FALSE, out |-> NoRoom] :
                    n \in ProbeSizes, c \in ProbeCaps,
                    w \in ProbeCursors, r \in ProbeCursors}

\* FrameProducer::grant(n) on a queue of capacity c with write = w and
\* read = r: where grant_exact places the request.
ProbeGrant ==
    /\ probe.op = "grant" /\ ~probe.asked
    /\ probe' = [probe EXCEPT
                   !.asked = TRUE,
                   !.out = GrantExactPlace(probe.w, probe.r, FramedRequest(probe.n), probe.c)]
    /\ UNCHANGED <<buf, write, read, last, reserve, read_in_progress, write_in_progress,
                   already_split, pairs, wgrants, rgrants, ppc, pl, pres, cpc, cl, cres,
                   mode, sres, wakers, futures, frames, fifo>>

ProbeNext == ProbeGrant

SpecProbe == ProbeInit /\ [][ProbeNext]_vars

\* Framed grants of n payload bytes on a fresh queue of FrameCap bytes, each
\* to be committed with commit(k).
FrameCap == 256
FramePayloads == {0, 1, 5, 127, 128, 129, 200}
FrameCommits == 0..131

FrameInit ==
    /\ NewQueue
    /\ probe \in {[op |-> "commit", n |-> n, k |-> k, asked |-> FALSE,
                    hdr_at |-> 0, hdr_len |-> 0, payload_at |-> 0, payload_len |-> 0,
                    from |-> 0, to |-> 0] :
                    n \in FramePayloads, k \in FrameCommits}

\* GrantW::commit_inner on an otherwise empty queue: the cells of the grant
\* at start, of len bytes, that commit(used) makes readable.
CommittedRange(start, len, used) ==
    [from |-> start, to |-> (start + len) - (len - Saturate(len, used))]

\* FrameProducer::grant(n) then FrameGrantW::commit(k): where the header and
\* the payload lie, and what the raw commit of header + payload publishes.
ProbeCommit ==
    LET g == GrantExactPlace(0, 0, FramedRequest(probe.n), FrameCap)
        h_max == HeaderLen(probe.n)
        L == Saturate(probe.n, probe.k)
        hdr == EncodeLen(L)
        c == CommittedRange(g.start, g.len, Len(hdr) + L)
    IN
    /\ probe.op = "commit" /\ ~probe.asked /\ g # NoRoom
    /\ probe' = [probe EXCEPT
                   !.asked = TRUE,
                   !.hdr_at = g.start + h_max - Len(hdr),
                   !.hdr_len = Len(hdr),
                   !.payload_at = g.start + h_max,
                   !.payload_len = L,
                   !.from = c.from,
                   !.to = c.to]
    /\ UNCHANGED <<buf, write, read, last, reserve, read_in_progress, write_in_progress,
                   already_split, pairs, wgrants, rgrants, ppc, pl, pres, cpc, cl, cres,
                   mode, sres, wakers, futures, frames, fifo>>

FrameNext == ProbeCommit

SpecFrameCommit == FrameInit /\ [][FrameNext]_vars

\* ------------------------------------------------------------ word width
\* Grant requests of any size a usize can hold, put to the queue of Cap bytes
\* with no write grant outstanding, in every position of write and read the
\* queue reaches (write = 0 with read = 1 is never reached), in a build with
\* overflow checks and in one without.
WordSizes == (0..MaxSz) \cup ((Word - MaxSz)..(Word - 1))
WordCursors == {c \in (0..Cap) \X (0..Cap) : c # <<0, 1>>}

WordInit ==
    /\ NewQueue
    /\ probe \in {[op |-> op, w |-> c[1], r |-> c[2], sz |-> sz, checked |-> b,
                    asked |-> FALSE, panicked |-> FALSE, out |-> NoRoom,
                    reserve |-> c[1]] :
                    op \in {"grant_exact", "grant_max_remaining"},
                    c \in WordCursors, sz \in WordSizes, b \in BOOLEAN}

\* grant_exact computes write + sz; the sum of two usize that does not fit
\* panics in a build with overflow checks and wraps in one without.
\* grant_max_remaining adds nothing to the size asked for.
Overflows(op, w, sz) == op = "grant_exact" /\ w + sz >= Word

\* Producer::grant_exact(sz) / grant_max_remaining(sz): the placement, and
\* the value stored into reserve (start + sz).
WordGrant ==
    LET pm == Place(probe.op, probe.w, probe.r, probe.sz, Cap) IN
    /\ probe.op \in {"grant_exact", "grant_max_remaining"} /\ ~probe.asked
    /\ probe' = IF probe.checked /\ Overflows(probe.op, probe.w, probe.sz)
                  THEN [probe EXCEPT !.asked = TRUE, !.panicked = TRUE]
                  ELSE [probe EXCEPT
                          !.asked = TRUE,
                          !.out = pm,
                          !.reserve = IF pm = NoRoom THEN probe.reserve
                                      ELSE (pm.start + pm.len) % Word]
    /\ UNCHANGED <<buf, write, read, last, reserve, read_in_progress, write_in_progress,
                   already_split, pairs, wgrants, rgrants, ppc, pl, pres, cpc, cl, cres,
                   mode, sres, wakers, futures, frames, fifo>>

WordNext == WordGrant

SpecWord == WordInit /\ [][WordNext]_vars

\* ------------------------------------------------------------ waker slot
\* WakerStorage, on its own: a slot for one Waker.  A waker is the task it
\* wakes and the raw waker (data and vtable) it was made of; a task may have
\* several raw wakers.
Tasks == 1..2
Raws == 1..2
Wakers == [task : Tasks, raw : Raws]
\* None
NoWaker == [task |-> 0, raw |-> 0]
\* Number of set / wake calls in a behaviour.
MaxCalls == 4

\* Waker::will_wake: true only for wakers of the same task; it compares the
\* raw wakers, so it may be false for two wakers of one task.
WillWake(prev, new) == prev.task = new.task /\ prev.raw = new.raw

\* WakerStorage::new(), and nothing called yet.  registered is the waker of
\* the latest set, woken the wakers woken so far, in order.
WakerInit ==
    /\ NewQueue
    /\ probe = [op |-> "waker", waker |-> NoWaker, registered |-> NoWaker,
                woken |-> <<>>, calls |-> 0]

\* Mutant of WakerStorageSet: the new waker replaces the old one silently.
WakerStorageSetSilent(slot, new) == [waker |-> new, woke |-> <<>>]

\* WakerStorage::set: the slot afterwards and the waker woken, if any.
WakerStorageSet(slot, new) ==
    IF slot # NoWaker /\ WillWake(slot, new)
      THEN [waker |-> slot, woke |-> <<>>]
      ELSE [waker |-> new, woke |-> IF slot # NoWaker THEN <<slot>> ELSE <<>>]

\* WakerStorage::wake: take() the waker and wake it.
WakerStorageWake(slot) ==
    [waker |-> NoWaker, woke |-> IF slot # NoWaker THEN <<slot>> ELSE <<>>]

WakerSet(new) ==
    LET s == WakerStorageSet(probe.waker, new) IN
    /\ probe.op = "waker" /\ probe.calls < MaxCalls
    /\ probe' = [probe EXCEPT !.waker = s.waker, !.woken = @ \o s.woke,
                              !.registered = new, !.calls = @ + 1]
    /\ UNCHANGED <<buf, write, read, last, reserve, read_in_progress, write_in_progress,
                   already_split, pairs, wgrants, rgrants, ppc, pl, pres, cpc, cl, cres,
                   mode, sres, wakers, futures, frames, fifo>>

WakerWake ==
    LET s == WakerStorageWake(probe.waker) IN
    /\ probe.op = "waker" /\ probe.calls < MaxCalls
    /\ probe' = [probe EXCEPT !.waker = s.waker, !.woken = @ \o s.woke,
                              !.calls = @ + 1]
    /\ UNCHANGED <<buf, write, read, last, reserve, read_in_progress, write_in_progress,
                   already_split, pairs, wgrants, rgrants, ppc, pl, pres, cpc, cl, cres,
                   mode, sres, wakers, futures, frames, fifo>>

WakerNext ==
    \/ \E new \in Wakers : WakerSet(new)
    \/ WakerWake

SpecWaker == WakerInit /\ [][WakerNext]_vars

\* ============================================================ properties
\* The cells of a write grant: [start, start + len).
GrantCells(g) == {g.start + k : k \in 0..(g.len - 1)}

\* The cells of a read grant in reading order: buf (or buf1), then buf2.
ReadView(g) == Cells(g.start, g.len1) \o Cells(0, g.len2)

SeqRange(q) == {q[k] : k \in DOMAIN q}

\* The write grants whose bytes are not published yet: the ones alive and the
\* one a running commit has not yet stored into write.
Unpublished ==
    SeqRange(wgrants) \cup (IF ppc = "c_write" THEN {[start |-> pl.g.start, len |-> pl.g.len]} ELSE {})

UnpublishedCells == UNION {GrantCells([start |-> g.start, len |-> g.len]) : g \in Unpublished}

\* What the cursors say is readable: [read, write), or when the writer has
\* wrapped behind the reader [read, last) followed by [0, write).
Readable(w, l, r) ==
    IF w < r THEN Cells(r, l - r) \o Cells(0, w) ELSE Cells(r, w - r)

\* C1: under every interleaving of the producer's and the consumer's
\* operations, what the consumer reads through its grants and releases is the
\* committed byte sequence, in order, nothing lost, duplicated or reordered:
\* every read grant shows the oldest committed and unreleased bytes in commit
\* order, no such byte lies in memory the producer may still write, and the
\* cursors account for exactly the committed and unreleased bytes.
C1_DataIntegrity ==
    /\ \A i \in DOMAIN rgrants :
          /\ GrantLen(rgrants[i]) <= Len(fifo)
          /\ ReadView(rgrants[i]) = SubSeq(fifo, 1, GrantLen(rgrants[i]))
    /\ UnpublishedCells \cap SeqRange(fifo) = {}
    /\ fifo = Readable(write, last, read)

\* A split read grant spanning the wrap is alive while the producer holds a
\* write grant and bytes were released before.
C1_Witness ==
    /\ \E i \in DOMAIN rgrants : rgrants[i].len2 > 0 /\ rgrants[i].len1 > 0
    /\ Len(wgrants) = 1 /\ wgrants[1].len > 0

\* C2: in every reachable state, mid-operation states included, the bytes of
\* an outstanding (unpublished) write grant are disjoint from the bytes of
\* every outstanding read grant or split read grant.
C2_GrantsDisjoint ==
    \A i \in DOMAIN rgrants : UnpublishedCells \cap SeqRange(ReadView(rgrants[i])) = {}

\* A commit is between its store to last and its store to write while a split
\* read grant over both segments is alive.
C2_Witness ==
    /\ ppc = "c_write" /\ pl.g.len > 0
    /\ \E i \in DOMAIN rgrants : rgrants[i].len2 > 0

\* The fields of the queue header a request works on.
Header == <<write, read, last, reserve, read_in_progress, write_in_progress>>

\* C3: at most one write grant and at most one read or split read grant exist
\* at a time; a grant request made while a write grant is outstanding, and a
\* read or split read request made while a read grant is outstanding, returns
\* GrantInProgress and hands out nothing.
C3_OneGrantPerSide ==
    /\ [](Len(wgrants) + (IF ppc = "c_write" THEN 1 ELSE 0) <= 1 /\ Len(rgrants) <= 1)
    /\ [][\A op \in {"grant_exact", "grant_max_remaining"}, sz \in Sizes :
            (Grant(op, sz) /\ Len(wgrants) >= 1)
               => (pres' = "GrantInProgress" /\ wgrants' = wgrants)]_vars
    /\ [][\A op \in {"read", "split_read"} :
            (ReadBegin(op) /\ Len(rgrants) >= 1)
               => (cres' = "GrantInProgress" /\ rgrants' = rgrants /\ cpc' = "idle")]_vars

\* Both sides have been refused a second grant while holding one.
C3_Witness ==
    /\ pres = "GrantInProgress" /\ Len(wgrants) = 1
    /\ cres = "GrantInProgress" /\ Len(rgrants) = 1

\* C4: commit(used) on a write grant of length L publishes exactly min(used, L)
\* further bytes, the first ones of the grant, and moves write just past them;
\* release(used) on a read grant of length L removes exactly min(used, L)
\* bytes and advances read by that much, never past the end of the grant.
C4_Saturating ==
    /\ [][(CommitPublish /\ pl.op = "commit")
            => /\ fifo' = fifo \o Cells(pl.g.start, Min(pl.arg, pl.g.len))
               /\ write' = pl.g.start + Min(pl.arg, pl.g.len)
               /\ write' <= pl.g.start + pl.g.len]_vars
    /\ [][\A i \in DOMAIN rgrants, arg \in Sizes :
            (Release(i, "release", arg) /\ rgrants[i].kind = "read")
               => /\ read' = read + Min(arg, rgrants[i].len1)
                  /\ read' <= rgrants[i].start + rgrants[i].len1
                  /\ Len(fifo') = Len(fifo) - Min(arg, rgrants[i].len1)]_vars

\* A commit asking for more than the grant holds is under way while a read
\* grant is alive.
C4_Witness ==
    /\ ppc = "c_write" /\ pl.op = "commit" /\ pl.g.len > 0 /\ pl.arg > pl.g.len
    /\ \E i \in DOMAIN rgrants : rgrants[i].kind = "read"

C6_DropReadKeeps ==
    /\ [][\A i \in DOMAIN rgrants :
            (Release(i, "drop", 0) /\ rgrants[i].to_release = 0)
               => (read' = read /\ fifo' = fifo /\ ~read_in_progress')]_vars
    /\ [][(ReadFinish /\ cl.prev.op = "dropped" /\ cl.prev.g.kind = cl.op)
            => /\ cres' = "Ok"
               /\ Len(rgrants') = 1
               /\ GrantLen(rgrants'[1]) >= GrantLen(cl.prev.g)
               /\ SubSeq(ReadView(rgrants'[1]), 1, GrantLen(cl.prev.g))
                     = ReadView(cl.prev.g)]_vars

\* A request follows the drop of a split read grant over both segments, and
\* the producer has published more bytes since that grant was handed out.
C6_Witness ==
    /\ cpc = "r_read" /\ cl.prev.op = "dropped" /\ cl.prev.g.kind = cl.op
    /\ cl.prev.g.len2 > 0
    /\ Len(fifo) > GrantLen(cl.prev.g)

\* C7: to_commit(a) on a write grant of length L makes its drop commit exactly
\* min(a, L) bytes instead of rolling back; to_release(a) on a read grant or
\* split read grant of (combined) length L makes its drop release exactly
\* min(a, L) bytes.
C7_DropHonoursMark ==
    /\ [][\A i \in DOMAIN wgrants, a \in Sizes :
            ToCommit(i, a) => wgrants'[i].to_commit = Min(a, wgrants[i].len)]_vars
    /\ [][(CommitPublish /\ pl.op = "drop")
            => /\ fifo' = fifo \o Cells(pl.g.start, pl.g.to_commit)
               /\ write' = pl.g.start + pl.g.to_commit]_vars
    /\ [][\A i \in DOMAIN rgrants, a \in Sizes :
            ToRelease(i, a) => rgrants'[i].to_release = Min(a, GrantLen(rgrants[i]))]_vars
    /\ [][\A i \in DOMAIN rgrants :
            Release(i, "drop", 0)
               => LET n == rgrants[i].to_release
                      before == Readable(write, last, read)
                  IN  /\ ~read_in_progress'
                      /\ Readable(write', last', read') = SubSeq(before, n + 1, Len(before))]_vars

\* A marked write grant is being dropped while a split read grant over both
\* segments is marked past its first segment.
C7_Witness ==
    /\ ppc = "c_write" /\ pl.op = "drop" /\ pl.g.to_commit > 0
    /\ \E i \in DOMAIN rgrants :
          rgrants[i].len2 > 0 /\ rgrants[i].to_release > rgrants[i].len1

\* C8: a grant request that fails, with InsufficientSize or GrantInProgress,
\* leaves write, read, last, reserve and both in-progress flags exactly as
\* they were before the call.
C8_FailedGrantNoEffect ==
    [][\A op \in {"grant_exact", "grant_max_remaining"}, sz \in Sizes :
         (Grant(op, sz) /\ pres' \in {"InsufficientSize", "GrantInProgress"})
            => UNCHANGED Header]_vars

\* A grant request has failed for lack of room, with bytes waiting and
\* released bytes behind them.
C8_Witness ==
    /\ pres = "InsufficientSize" /\ Len(wgrants) = 0 /\ ppc = "idle"
    /\ ~write_in_progress /\ read > 0 /\ Len(fifo) > 0

\* C9 as stated: a read or split read request that fails, with
\* InsufficientSize or GrantInProgress, leaves write, read, last, reserve and
\* both in-progress flags exactly as they were before the call.
C9_FailedReadNoEffect ==
    /\ [][(ReadFinish /\ cres' = "InsufficientSize")
            => /\ read' = cl.r0
               /\ ~read_in_progress'
               /\ UNCHANGED <<write, last, reserve, write_in_progress>>]_vars
    /\ [][\A op \in {"read", "split_read"} :
            (ReadBegin(op) /\ cres' = "GrantInProgress") => UNCHANGED Header]_vars

\* C9, amended: a read or split read request that fails leaves write, last,
\* reserve and both in-progress flags as they were before the call; read is
\* unchanged too, except that a request finding read = last with write < read
\* has reset read to 0 before it fails.
C9_FailedReadResetsAtMost ==
    /\ [][(ReadFinish /\ cres' = "InsufficientSize")
            => /\ read' = (IF cl.r0 = cl.l /\ cl.w < cl.r0 THEN 0 ELSE cl.r0)
               /\ ~read_in_progress'
               /\ UNCHANGED <<write, last, reserve, write_in_progress>>]_vars
    /\ [][\A op \in {"read", "split_read"} :
            (ReadBegin(op) /\ cres' = "GrantInProgress") => UNCHANGED Header]_vars

\* A request has failed after resetting read: the writer had wrapped to index
\* 0 without publishing a byte there.
C9_Witness ==
    /\ cres = "InsufficientSize" /\ cpc = "idle"
    /\ read = 0 /\ write = 0 /\ last > 0 /\ ~read_in_progress

\* C10: at most one Producer/Consumer pair exists at a time, and every
\* try_split (or try_split_framed) made while a pair exists returns
\* AlreadySplit and creates nothing.
C10_SplitOnce ==
    /\ [](pairs <= 1 /\ (already_split <=> pairs = 1))
    /\ [][((TrySplit \/ TrySplitFramed) /\ pairs >= 1)
            => (sres' = "AlreadySplit" /\ pairs' = pairs /\ already_split')]_vars

\* A second split has been refused while the pair of the first is in use.
C10_Witness ==
    /\ sres = "AlreadySplit" /\ pairs = 1
    /\ Len(wgrants) = 1 /\ Len(rgrants) = 1

\* C11: try_release returns Err, with the pair still in the caller's hands,
\* and changes no cursor and no flag (already_split included) whenever either
\* handle belongs to another queue or a read or write grant is in progress.
C11_ReleaseRefused ==
    [][\A a \in BOOLEAN, b \in BOOLEAN :
         (TryRelease(a, b) /\ (~a \/ ~b \/ write_in_progress \/ read_in_progress))
            => /\ sres' = "ReleaseErr"
               /\ UNCHANGED Header
               /\ UNCHANGED <<already_split, pairs, mode>>]_vars

\* A release has been refused while a read grant, and no write grant, is in
\* progress on a queue holding committed bytes.
C11_Witness ==
    /\ sres = "ReleaseErr" /\ pairs = 1 /\ already_split
    /\ read_in_progress /\ ~write_in_progress /\ Len(rgrants) = 1

\* C12: a successful try_release leaves write, read, last and reserve at 0
\* and already_split false, so that no byte committed before it is readable;
\* the try_split or try_split_framed that follows succeeds.
C12_ReleaseResets ==
    /\ [][\A a \in BOOLEAN, b \in BOOLEAN :
            (TryRelease(a, b) /\ sres' = "ReleaseOk")
               => /\ write' = 0 /\ read' = 0 /\ last' = 0 /\ reserve' = 0
                  /\ ~already_split'
                  /\ Readable(write', last', read') = <<>>]_vars
    /\ [][((TrySplit \/ TrySplitFramed) /\ sres = "ReleaseOk")
            => /\ sres' = "Ok" /\ pairs' = 1 /\ already_split'
               /\ Readable(write', last', read') = <<>>]_vars

\* A queue that was split before has just been released.
C12_Witness ==
    /\ sres = "ReleaseOk" /\ pairs = 0 /\ ~already_split /\ buf[0] = 0
    /\ write = 0 /\ read = 0 /\ last = 0 /\ reserve = 0

\* C13 as stated: after a successful try_split every byte of the backing
\* region is zero, whatever it held before.
C13_AllZeroAfterSplit ==
    [][((TrySplit \/ TrySplitFramed) /\ sres' = "Ok")
         => \A i \in DOMAIN buf' : buf'[i] = 0]_vars

\* C14: a successful read() returns exactly the cells [read, write) when
\* write >= read and exactly [read, last) when write < read (write and last as
\* the call loaded them, read after its rollover); while a byte of the tail
\* [read, last) is unreleased, no byte committed at the start of the buffer
\* after the wraparound is returned.
C14_ReadView ==
    [][(ReadFinish /\ cl.op = "read" /\ cres' = "Ok")
         => LET g == rgrants'[Len(rgrants')] IN
            /\ g.start = read' /\ g.len1 > 0 /\ g.len2 = 0
            /\ ReadView(g) = (IF cl.w >= read' THEN Cells(read', cl.w - read')
                              ELSE Cells(read', cl.l - read'))
            /\ (cl.w < cl.r0 /\ cl.r0 < cl.l)
                  => /\ \A k \in SeqRange(ReadView(g)) : k >= cl.r0
                     /\ ReadView(g) = Cells(cl.r0, cl.l - cl.r0)
            /\ GrantLen(g) <= Len(fifo')
            /\ ReadView(g) = SubSeq(fifo', 1, GrantLen(g))]_vars

\* A read grant covers the tail [read, last) while bytes committed after the
\* wraparound wait at the start of the buffer.
C14_Witness ==
    /\ Len(rgrants) = 1 /\ rgrants[1].kind = "read"
    /\ write < read /\ write > 0
    /\ rgrants[1].start = read /\ rgrants[1].start + rgrants[1].len1 = last
    /\ Len(fifo) > rgrants[1].len1

\* C15: a successful split_read() returns two slices whose concatenation is
\* the complete sequence of committed and unreleased bytes, in commit order,
\* as of the call's load of write, and combined_len is their count; it fails
\* with InsufficientSize only when there is no such byte.  (When the producer
\* has published nothing since that load, the sequence is the current one.)
C15_SplitReadComplete ==
    [][(ReadFinish /\ cl.op = "split_read")
         => LET snap == Readable(cl.w, cl.l, cl.r0) IN
            IF cres' = "Ok"
              THEN LET g == rgrants'[Len(rgrants')] IN
                   /\ g.len1 > 0 /\ g.len2 >= 0
                   /\ ReadView(g) = snap
                   /\ GrantLen(g) = Len(snap)
                   /\ ReadView(g) = SubSeq(fifo', 1, GrantLen(g))
                   /\ (write' = cl.w) => (ReadView(g) = fifo')
              ELSE /\ cres' = "InsufficientSize"
                   /\ snap = <<>>
                   /\ (write' = cl.w) => (fifo' = <<>>)]_vars

\* A split read grant holds both the tail and the bytes committed after the
\* wraparound, all that is committed.
C15_Witness ==
    /\ Len(rgrants) = 1 /\ rgrants[1].kind = "split_read"
    /\ rgrants[1].len1 > 0 /\ rgrants[1].len2 > 0
    /\ ReadView(rgrants[1]) = fifo

\* C16: releasing a split read grant with used (after saturation) at most the
\* primary length advances read by used; with used above the primary length
\* it sets read to used minus the primary length, and what is readable then
\* is exactly the unreleased rest of the secondary segment followed by what
\* was committed later.  Either way exactly the first used bytes are gone.
C16_SplitRelease ==
    [][\A i \in DOMAIN rgrants, arg \in Sizes :
         (Release(i, "release", arg) /\ rgrants[i].kind = "split_read")
            => LET g == rgrants[i]
                   used == Min(arg, GrantLen(g))
                   before == Readable(write, last, read)
                   after == Readable(write', last', read')
               IN
               /\ after = SubSeq(before, used + 1, Len(before))
               /\ ~read_in_progress'
               /\ IF used <= g.len1
                    THEN read' = read + used
                    ELSE /\ read' = used - g.len1
                         /\ after = Cells(used - g.len1, g.len2 - (used - g.len1))
                                      \o Cells(g.len2, write' - g.len2)]_vars

\* The reader has passed the wrap point and left bytes of the start of the
\* buffer unreleased: read > 0 behind write, last still at the old wrap point.
C16_Witness ==
    /\ cres = "Ok" /\ cpc = "idle" /\ Len(rgrants) = 0 /\ ~read_in_progress
    /\ 0 < read /\ read < write /\ write < last

\* C17: grant_exact(sz) with no write grant outstanding succeeds at index
\* write iff write + sz < read when write < read; otherwise it succeeds at
\* index write if write + sz <= N, else at index 0 iff sz < read; in every
\* other case it fails with InsufficientSize.  A successful grant has length
\* sz and leaves reserve = start + sz.
C17_GrantExact ==
    [][\A sz \in Sizes :
         (Grant("grant_exact", sz) /\ ~write_in_progress)
            => LET at == IF write < read
                           THEN (IF write + sz < read THEN write ELSE -1)
                           ELSE IF write + sz <= Cap THEN write
                           ELSE IF sz < read THEN 0
                           ELSE -1
               IN
               IF at = -1
                 THEN pres' = "InsufficientSize" /\ wgrants' = wgrants
                      /\ reserve' = reserve /\ ~write_in_progress'
                 ELSE /\ pres' = "Ok"
                      /\ Len(wgrants') = Len(wgrants) + 1
                      /\ wgrants'[Len(wgrants')].start = at
                      /\ wgrants'[Len(wgrants')].len = sz
                      /\ reserve' = at + sz
                      /\ write_in_progress']_vars

\* A write grant placed at index 0 although room was left at the end of the
\* buffer: the request did not fit there.
C17_Witness ==
    /\ Len(wgrants) = 1 /\ pres = "Ok"
    /\ wgrants[1].start = 0 /\ wgrants[1].w0 > 0 /\ wgrants[1].w0 < Cap
    /\ wgrants[1].len > 0 /\ reserve = wgrants[1].len

\* The grant a successful request has just handed out.
NewGrant == wgrants'[Len(wgrants')]

C19_MaxGrantAvoidsRead ==
    [][\A sz \in Sizes :
         (Grant("grant_max_remaining", sz) /\ ~write_in_progress /\ pres' = "Ok")
            => /\ read \notin GrantCells(NewGrant)
               /\ GrantCells(NewGrant) \cap SeqRange(fifo) = {}
               /\ (write < read) => (NewGrant.start + NewGrant.len < read)
               /\ (NewGrant.start # write) => (write = Cap /\ NewGrant.start = 0)]_vars

\* C19, amended: a grant issued by grant_max_remaining never includes an
\* unreleased byte; it includes index read only when read = write, where no
\* byte is unreleased; it leaves at least one free byte before read when
\* write < read or when it is placed at index 0 by a wraparound, which
\* happens only when write = N.
C19_MaxGrantAvoidsData ==
    [][\A sz \in Sizes :
         (Grant("grant_max_remaining", sz) /\ ~write_in_progress /\ pres' = "Ok")
            => /\ (read \in GrantCells(NewGrant)) => (read = write /\ fifo = <<>>)
               /\ GrantCells(NewGrant) \cap SeqRange(fifo) = {}
               /\ \A i \in DOMAIN rgrants :
                     GrantCells(NewGrant) \cap SeqRange(ReadView(rgrants[i])) = {}
               /\ (write < read) => (NewGrant.start + NewGrant.len < read)
               /\ (NewGrant.start # write)
                     => /\ write = Cap /\ NewGrant.start = 0
                        /\ NewGrant.len < read]_vars

\* A grant placed at index 0 with write at the end of the buffer, filling the
\* room up to one byte before read.
C19_Witness ==
    /\ Len(wgrants) = 1 /\ pres = "Ok"
    /\ wgrants[1].start = 0 /\ wgrants[1].w0 = Cap
    /\ wgrants[1].len >= 1 /\ wgrants[1].len = read - 1

\* A queue on which nothing was committed since the split.
Fresh ==
    /\ write = 0 /\ read = 0 /\ last = 0 /\ reserve = 0
    /\ ~write_in_progress /\ ~read_in_progress

\* k bytes were committed from index 0 on a fresh queue and none was released.
FirstFill(k) ==
    /\ write = k /\ read = 0 /\ fifo = Cells(0, k)
    /\ ~read_in_progress

\* C20: on a freshly split queue of capacity N, for every k in 1..N,
\* grant_exact(k) succeeds with the k cells from index 0, commit(k) publishes
\* them, and read() then returns exactly those k bytes; when k = N the queue
\* is full, and as long as nothing is released every grant request for at
\* least one byte fails with InsufficientSize.
C20_FillAndRead ==
    /\ [][\A k \in 1..Cap :
            (Grant("grant_exact", k) /\ Fresh)
               => /\ pres' = "Ok"
                  /\ NewGrant.start = 0 /\ NewGrant.len = k]_vars
    /\ [][(CommitPublish /\ pl.op = "commit" /\ pl.arg = pl.g.len
             /\ pl.g.start = 0 /\ pl.g.w0 = 0 /\ pl.g.last0 = 0 /\ read = 0)
            => (write' = pl.g.len /\ read' = 0 /\ fifo' = Cells(0, pl.g.len))]_vars
    /\ [][\A k \in 1..Cap :
            (ReadBegin("read") /\ FirstFill(k))
               => (cpc' = "r_last" /\ cl'.w = k /\ cl'.r0 = 0)]_vars
    /\ [][\A k \in 1..Cap :
            (ReadFinish /\ cl.op = "read" /\ cl.w = k /\ cl.r0 = 0 /\ fifo = Cells(0, k))
               => /\ cres' = "Ok"
                  /\ ReadView(rgrants'[Len(rgrants')]) = Cells(0, k)]_vars
    /\ [][\A op \in {"grant_exact", "grant_max_remaining"}, sz \in 1..MaxSz :
            (Grant(op, sz) /\ ~write_in_progress /\ write = Cap /\ read = 0)
               => (pres' = "InsufficientSize" /\ wgrants' = wgrants)]_vars

\* The queue is full from a single grant of N bytes, the reader holds all of
\* them, and a further grant request has just failed.
C20_Witness ==
    /\ write = Cap /\ read = 0 /\ last = Cap /\ fifo = Cells(0, Cap)
    /\ Len(rgrants) = 1 /\ rgrants[1].kind = "read" /\ rgrants[1].len1 = Cap
    /\ pres = "InsufficientSize"

\* C21 as stated: grant_exact(0) succeeds whenever no write grant is
\* outstanding, and commit(0) of that empty grant changes none of write, read,
\* last and reserve and makes no byte readable.
C21_ZeroGrantNoOp ==
    /\ [][(Grant("grant_exact", 0) /\ ~write_in_progress)
            => (pres' = "Ok" /\ NewGrant.len = 0 /\ NewGrant.start = write)]_vars
    /\ [][\A i \in DOMAIN wgrants :
            (CommitBegin(i, "commit", 0) /\ wgrants[i].len = 0)
               => UNCHANGED <<write, read, last, reserve>>]_vars
    /\ [][(CommitPublish /\ pl.op = "commit" /\ pl.g.len = 0)
            => (UNCHANGED <<write, read, last, reserve>> /\ fifo' = fifo)]_vars

\* C22 as stated: in every reachable state with write = N - 1 and no write
\* grant outstanding, grant_exact(2) succeeds, placed at index 0, iff read > 2.
C22_WrapIffReadAbove2 ==
    [][(Grant("grant_exact", 2) /\ ~write_in_progress /\ write = Cap - 1)
         => ((pres' = "Ok" /\ NewGrant.start = 0) <=> (read > 2))]_vars

\* C22, amended: in every reachable state with write = N - 1 and no write
\* grant outstanding, grant_exact(2) succeeds, placed at index 0, iff
\* 2 < read <= write; it fails with InsufficientSize otherwise, in particular
\* when the writer has already wrapped and the reader stands at read = N.
C22_WrapIffReadBetween ==
    [][(Grant("grant_exact", 2) /\ ~write_in_progress /\ write = Cap - 1)
         => /\ (pres' = "Ok" /\ NewGrant.start = 0 /\ NewGrant.len = 2)
                 <=> (2 < read /\ read <= write)
            /\ (pres' = "InsufficientSize" /\ wgrants' = wgrants)
                 <=> ~(2 < read /\ read <= write)]_vars

\* A grant of 2 bytes placed at index 0 from write = N - 1.
C22_Witness ==
    /\ Len(wgrants) = 1 /\ pres = "Ok"
    /\ wgrants[1].start = 0 /\ wgrants[1].len = 2 /\ wgrants[1].w0 = Cap - 1

\* C23: a poll of a grant_exact_async(sz) future resolves at once with
\* InsufficientSize, registering no waker, exactly when sz > N or
\* (sz > N - write and sz >= write); and a request refused in this way is one
\* that grant_exact(sz) grants for no position of read.
C23_ImmediateError ==
    [][(GrantFuturePoll /\ pfut.op = "grant_exact")
         => /\ (pfut' = NoFuture /\ pres' = "InsufficientSize" /\ ~write_waker')
                 <=> (pfut.sz > Cap \/ (pfut.sz > Cap - write /\ pfut.sz >= write))
            /\ (pfut' = NoFuture)
                 => \A r \in 0..Cap : GrantExactPlace(write, r, pfut.sz, Cap) = NoRoom]_vars

\* A grant_exact_async future was refused at once on a queue that holds data.
C23_Witness ==
    /\ pfut = NoFuture /\ pres = "InsufficientSize"
    /\ write > 0 /\ write < Cap /\ wgrants = <<>>

\* C24: with a consumer task that keeps reading with read_async and releasing
\* all it gets, and both tasks polled whenever they are woken, a pending
\* grant_exact_async(sz) future whose size is feasible is eventually resolved
\* with its grant.
C24_ExactResolved ==
    (pfut.op = "grant_exact" /\ pfut.sz <= Cap
        /\ (pfut.sz <= Cap - write \/ pfut.sz < write))
      ~> (pfut = NoFuture /\ pres = "Ok")

\* C25: under the same conditions a pending grant_max_remaining_async(sz)
\* future with sz >= 1 is eventually resolved with a grant.
C25_MaxResolved ==
    (pfut.op = "grant_max_remaining" /\ pfut.sz >= 1)
      ~> (pfut = NoFuture /\ pres = "Ok")

\* C26: a commit that publishes wakes the waker registered in read_waker, and
\* a release of a read grant of either kind wakes the waker registered in
\* write_waker: the registered waker is taken out.
C26_Wakes ==
    /\ [][(CommitPublish /\ read_waker) => ~read_waker']_vars
    /\ [][(ConsumerReleases /\ read_in_progress /\ write_waker) => ~write_waker']_vars

\* A task is suspended: its future is pending, the poll has returned and its
\* waker is still registered.
ConsumerSuspended == cfut # NoFuture /\ cres = "Pending" /\ read_waker
ProducerSuspended == pfut # NoFuture /\ pres = "Pending" /\ write_waker

\* C27: no wakeup is lost.  The consumer task is not left suspended with
\* committed bytes to read, and the producer task is not left suspended
\* after a release made room for its request.
C27_NoLostWakeup ==
    /\ ConsumerSuspended => fifo = <<>>
    /\ (ProducerSuspended /\ cpc = "idle" /\ rgrants = <<>>)
          => Place(pfut.op, write, read, pfut.sz, Cap) = NoRoom

\* The payload of the frame a framed read delivered: its cells, in order.
FrameView == Cells(rgrants[1].start + cl.hdr, cl.len)

FrameStart(f) == f.at - HeaderLen(Min(f.k, f.n))

TableHeaderLen(L) == IF L <= 127 THEN 1 ELSE IF L <= 16383 THEN 2 ELSE 3

\* A framed request on a fresh queue.
FreshProbe == probe.asked /\ probe.w = 0 /\ probe.r = 0

\* The state of a queue of capacity 22 that holds 10-byte frames: write = w, read = r.
Probe22(w, r) == probe.asked /\ probe.c = 22 /\ probe.n = 10 /\ probe.w = w /\ probe.r = r

\* What holds of C30 in both of its readings: the header lengths, the request
\* of header + payload bytes, the fit on a fresh queue, and two 10-byte frames
\* then no third one in 22 bytes.
C30_Common ==
    /\ probe.asked
         => /\ HeaderLen(probe.n) = TableHeaderLen(probe.n)
            /\ probe.out # NoRoom => probe.out.len = TableHeaderLen(probe.n) + probe.n
    /\ FreshProbe
         => /\ (probe.out # NoRoom) <=> (TableHeaderLen(probe.n) + probe.n <= probe.c)
            /\ probe.out # NoRoom => probe.out.start = 0
    /\ (FreshProbe /\ probe.c = 65536 /\ probe.n = 65534) => probe.out = NoRoom
    /\ (FreshProbe /\ probe.c = 65536 /\ probe.n = 65533)
         => probe.out = [start |-> 0, len |-> 65536]
    /\ Probe22(0, 0) => probe.out = [start |-> 0, len |-> 11]
    /\ Probe22(11, 0) => probe.out = [start |-> 11, len |-> 11]
    /\ Probe22(22, 0) => probe.out = NoRoom

\* C30 as stated: with 22 bytes holding two 10-byte frames, the third is
\* refused until one frame is released, and granted from then on.
C30_ThirdAfterOneRelease ==
    /\ C30_Common
    /\ Probe22(22, 11) => probe.out # NoRoom

\* C30: header lengths 1, 2, 3; grant(n) asks grant_exact for header + n
\* bytes and succeeds on a fresh queue iff they fit the capacity; with 22
\* bytes holding two 10-byte frames the third is refused, still refused when
\* one frame is released, and granted at index 0 when both are.
C30_ThirdAfterBothReleased ==
    /\ C30_Common
    /\ Probe22(22, 11) => probe.out = NoRoom
    /\ Probe22(22, 22) => probe.out = [start |-> 0, len |-> 11]

\* The largest payload a fresh queue of 65536 bytes grants, with its 3-byte header.
C30_Witness ==
    /\ FreshProbe /\ probe.c = 65536 /\ probe.n = 65533
    /\ probe.out = [start |-> 0, len |-> 65536]

C32_LastBeforeWrite ==
    /\ [][\A i \in DOMAIN wgrants, op \in {"commit", "drop"}, arg \in Sizes :
            (CommitBegin(i, op, arg) /\ write_in_progress
                /\ wgrants[i].start = 0 /\ write > 0)
              => (last' = write /\ write' = write /\ ppc' = "c_write")]_vars
    /\ [](write < read => (read <= last /\ last <= Cap))

\* A wrapping commit has stored last and not yet write, while the reader is
\* in the middle of a read.
C32_Witness ==
    /\ ppc = "c_write" /\ pl.g.start = 0 /\ write > 0 /\ last = write
    /\ pl.new_write < write /\ pl.used > 0
    /\ cpc = "r_read"

\* C33: a commit that does not wrap and whose new write lies past the
\* current last stores the capacity N into last.
C33_LastRestoredToN ==
    [][\A i \in DOMAIN wgrants, op \in {"commit", "drop"}, arg \in Sizes :
         (CommitBegin(i, op, arg) /\ write_in_progress
             /\ reserve' >= write /\ reserve' > last)
           => last' = Cap]_vars

\* C34: when no grant is in progress and no operation is under way, an
\* uninverted ring (read <= write) has last = N, except in the bootstrap
\* state read = write = last = 0.
C34_LastIsN ==
    (/\ ~write_in_progress /\ ~read_in_progress
     /\ ppc = "idle" /\ cpc = "idle"
     /\ read <= write)
      => (last = Cap \/ (read = 0 /\ write = 0 /\ last = 0))

\* C35 (as stated): while a write grant is outstanding reserve >= write, and
\* whenever no write grant is outstanding reserve = write.
C35_ReserveNotBelowWrite ==
    /\ wgrants # <<>> => reserve >= write
    /\ (wgrants = <<>> /\ ~write_in_progress) => reserve = write

\* C35 (amended): with no write grant outstanding reserve = write; while one is
\* outstanding reserve is the end of the grant, which is at or past write when
\* the grant starts at write and below write when the grant was placed at the
\* start of the buffer because the tail was too short.
C35_ReserveIsGrantEnd ==
    /\ (wgrants = <<>> /\ ~write_in_progress) => reserve = write
    /\ \A i \in DOMAIN wgrants :
          /\ reserve = wgrants[i].start + wgrants[i].len
          /\ wgrants[i].start = write => reserve >= write
          /\ wgrants[i].start # write
                => (wgrants[i].start = 0 /\ reserve < write)

C35_Witness ==
    /\ wgrants # <<>> /\ wgrants[1].start = 0 /\ write > 0
    /\ reserve < write /\ reserve > 0

\* C36: in every reachable state write, read, last and reserve are within
\* 0..N (no subtraction goes below zero, no addition overflows), and every
\* write grant, read grant and split read segment lies inside the buffer
\* [0, N).  Here for a grant request of any size: the request does not
\* overflow, reserve stays within 0..N and a grant issued ends inside the
\* buffer.
C36_CursorsAndGrantsInBounds ==
    probe.asked
      => /\ ~probe.panicked
         /\ probe.reserve \in 0..Cap
         /\ probe.out # NoRoom
              => (probe.out.start >= 0 /\ probe.out.start + probe.out.len <= Cap)

\* The same bounds over the behaviours of the queue with requests of at most
\* N + 1 bytes, where no sum reaches the width of a word: they hold there.
C36_InBoundsForSmallRequests ==
    /\ write \in 0..Cap /\ read \in 0..Cap
    /\ last \in 0..Cap /\ reserve \in 0..Cap
    /\ \A i \in DOMAIN wgrants :
          /\ wgrants[i].start >= 0 /\ wgrants[i].len >= 0
          /\ wgrants[i].start + wgrants[i].len <= Cap
    /\ \A i \in DOMAIN rgrants :
          /\ rgrants[i].start >= 0
          /\ rgrants[i].len1 >= 0 /\ rgrants[i].len2 >= 0
          /\ rgrants[i].start + rgrants[i].len1 <= Cap
          /\ rgrants[i].len2 <= Cap

\* The producer's operations: grant_exact, grant_max_remaining, to_commit,
\* commit and the drop of a write grant.
ProducerStep ==
    \/ \E op \in {"grant_exact", "grant_max_remaining"}, sz \in Sizes : Grant(op, sz)
    \/ \E i \in DOMAIN wgrants, amt \in Sizes : ToCommit(i, amt)
    \/ \E i \in DOMAIN wgrants, op \in {"commit", "drop"}, arg \in Sizes :
          CommitBegin(i, op, arg)
    \/ CommitPublish

\* The consumer's operations: read, split_read, to_release, release and the
\* drop of a read grant.
ConsumerStep ==
    \/ \E op \in {"read", "split_read"} : ReadBegin(op)
    \/ ReadLoadLast
    \/ ReadFinish
    \/ \E i \in DOMAIN rgrants, amt \in Sizes : ToRelease(i, amt)
    \/ \E i \in DOMAIN rgrants, op \in {"release", "drop"}, arg \in Sizes :
          Release(i, op, arg)

C38_EqualMeansEmpty ==
    /\ write = read => fifo = <<>>
    /\ \A i \in DOMAIN wgrants :
          (fifo # <<>> /\ wgrants[i].len > 0) => wgrants[i].start + wgrants[i].len # read

\* The ring is as full as it gets: the writer has wrapped and stands one byte
\* behind the reader.
C38_Witness ==
    /\ write + 1 = read /\ Len(fifo) = Cap - 1 /\ wgrants = <<>> /\ ppc = "idle"

\* C39: with no read grant outstanding, read() returns InsufficientSize only
\* when the queue holds no committed and unreleased byte; when it holds one,
\* in the tail or after a wraparound at the start of the buffer, read()
\* returns a non-empty grant.  (The queue is taken as of the call's load of
\* write: the first part is for calls during which the producer published
\* nothing, the second for all calls.)
C39_ReadFailsOnlyWhenEmpty ==
    /\ [][(ReadFinish /\ cl.op = "read" /\ write = cl.w)
            => IF fifo = <<>>
                 THEN cres' = "InsufficientSize" /\ rgrants' = rgrants
                 ELSE /\ cres' = "Ok"
                      /\ LET g == rgrants'[Len(rgrants')] IN
                         /\ g.len1 > 0
                         /\ ReadView(g) = SubSeq(fifo, 1, g.len1)]_vars
    /\ [][(ReadFinish /\ cl.op = "read" /\ cres' = "InsufficientSize")
            => /\ rgrants = <<>>
               /\ Readable(cl.w, cl.l, cl.r0) = <<>>]_vars

\* read() is about to finish with bytes waiting only at the start of the
\* buffer: the reader has released the whole tail (read = last), the writer
\* has wrapped and published there, and nothing was published since the load.
C39_Witness ==
    /\ cpc = "r_read" /\ cl.op = "read" /\ rgrants = <<>>
    /\ read = cl.l /\ cl.w < read /\ cl.w > 0 /\ write = cl.w
    /\ fifo = Cells(0, write)

\* wake(): the stored waker is woken once and the slot is left empty, a wake()
\* on the empty slot wakes nothing, and the waker woken is the one of the
\* latest registration.
WakeTakesLatest ==
    WakerWake
      => /\ probe'.waker = NoWaker
         /\ probe.waker = NoWaker => probe'.woken = probe.woken
         /\ probe.waker # NoWaker
              => /\ probe'.woken = Append(probe.woken, probe.waker)
                 /\ probe.waker = probe.registered

\* C40 (as stated): registering a waker stores it and wakes the previously
\* stored waker only if that one would wake a different task; wake() wakes
\* the stored waker once and leaves the slot empty, so a second wake() with no
\* registration in between wakes nothing, and the waker woken by wake() is
\* the last one registered.
C40_WakesOnlyOtherTask ==
    [][/\ \A new \in Wakers :
             WakerSet(new)
               => /\ probe'.waker = new
                  /\ probe'.woken # probe.woken
                       => (probe.waker # NoWaker /\ probe.waker.task # new.task)
       /\ WakeTakesLatest]_vars

\* C40 (amended): registering a waker stores it; the previously stored waker
\* is woken exactly when there is one and will_wake does not report that it
\* wakes the same task as the new one, which is always so for a waker of a
\* different task and may be so for another waker of the same task.  wake()
\* as stated.
C40_WakesUnlessWillWake ==
    [][/\ \A new \in Wakers :
             WakerSet(new)
               => /\ probe'.waker = new
                  /\ probe'.woken =
                        (IF probe.waker # NoWaker /\ ~WillWake(probe.waker, new)
                           THEN Append(probe.woken, probe.waker)
                           ELSE probe.woken)
                  /\ (probe.waker # NoWaker /\ probe.waker.task # new.task)
                        => probe'.woken = Append(probe.woken, probe.waker)
       /\ WakeTakesLatest]_vars

\* Task 1 registered twice with two wakers, the first was woken by the second
\* registration; wake() then woke the second, and a further wake() woke
\* nothing.
C40_Witness ==
    /\ probe.op = "waker" /\ probe.calls = 4 /\ probe.waker = NoWaker
    /\ probe.woken = <<[task |-> 1, raw |-> 1], [task |-> 1, raw |-> 2]>>
    /\ probe.registered = [task |-> 1, raw |-> 2]
====
